---- MODULE Spec2Model ----
(***************************************************************************)
(* Model of generate_icon.py: the icon renderer create_icon_image, the     *)
(* packaging step create_ico_file and the script's main.                   *)
(*                                                                         *)
(* A canvas is the image record made by Image.new together with the        *)
(* ordered list of ImageDraw calls issued on it.  A pixel of the canvas is *)
(* the ink of the last call whose raster covers it (ImageDraw on an RGBA   *)
(* image replaces pixels, it does not blend), or the transparent initial   *)
(* colour.                                                                 *)
(***************************************************************************)
EXTENDS Integers, Sequences, FiniteSets, TLC

VARIABLES
    pc,          \* position of the script
    entry,       \* "main": run as a script; "create_ico_file": imported and called
    run,         \* number of the current invocation
    pillow,      \* whether the PIL import succeeds
    dir,         \* the Resources path: "absent", "dir" or "file"
    parentW,     \* whether the script's directory is writable
    dirW,        \* whether the Resources directory is writable
    ico,         \* the file app.ico
    png,         \* the file app_preview.png
    images,      \* create_ico_file's list images
    preview,     \* main's local preview (a sequence of at most one canvas)
    log,         \* the steps the current invocation has completed
    failedAt,    \* the step whose exception ended the invocation, or "none"
    exitCode,    \* the process exit status once the invocation has ended
    prevOut,     \* the two files as the invocation just before left them, if it succeeded
    startDir     \* the Resources path as the current invocation found it

vars == <<pc, entry, run, pillow, dir, parentW, dirW, ico, png, images,
          preview, log, failedAt, exitCode, prevOut, startDir>>

----------------------------------------------------------------------------
(* Bounds *)

MaxRuns == 2

----------------------------------------------------------------------------
(* Arithmetic helpers *)

Max(a, b) == IF a >= b THEN a ELSE b

Abs(a) == IF a >= 0 THEN a ELSE -a

\* Python's int() on the rational n/d (d > 0): truncation toward zero.
TruncDiv(n, d) == IF n >= 0 THEN n \div d ELSE -((-n) \div d)

\* int(size * 0.pp) for a two-digit decimal fraction pp/100.  For the sizes
\* the script uses no product size*0.pp is an integer or within rounding
\* error of one, so the float product truncates as the exact one does.
Frac(size, pp) == TruncDiv(size * pp, 100)

\* int(c + size * 0.pp) and int(c - size * 0.pp)
FracPlus(c, size, pp) == TruncDiv(c * 100 + size * pp, 100)

FracMinus(c, size, pp) == TruncDiv(c * 100 - size * pp, 100)

----------------------------------------------------------------------------
(* Palette: create_icon_image's colour constants *)

bg_dark == <<20, 55, 90>>

bg_light == <<26, 82, 118>>

scan_color == <<200, 230, 255, 180>>

chart_color == <<100, 200, 150, 220>>

white == <<255, 255, 255>>

border_color == <<255, 255, 255, 100>>

dot_color == <<255, 255, 255, 200>>

Transparent == <<0, 0, 0, 0>>

\* An RGB tuple given as a fill on an RGBA image gets alpha 255.
Ink(color) == IF Len(color) = 3 THEN color \o <<255>> ELSE color

sizes == <<16, 32, 48, 64, 128, 256>>

----------------------------------------------------------------------------
(* The canvas and the ImageDraw calls *)

\* A canvas created half as high as it is wide.
ImageNewHalfHeight(size) == [width |-> size, height |-> size \div 2, ops |-> <<>>]

\* Image.new('RGBA', (size, size), (0, 0, 0, 0))
ImageNew(size) == [width |-> size, height |-> size, ops |-> <<>>]

\* One ImageDraw call.  filled: the call has a fill (ellipse, rectangle);
\* otherwise it strokes an outline of the given width.
DrawOp(kind, bbox, ink, filled, width, start, end) ==
    [kind |-> kind, bbox |-> bbox, ink |-> ink, filled |-> filled,
     width |-> width, start |-> start, end |-> end]

\* A draw call changes pixels only: the canvas keeps its dimensions.
Draw(img, op) == [img EXCEPT !.ops = Append(@, op)]

\* The interpolation rounded to the nearest integer instead of truncated.
GradientColorRounded(size, r) ==
    LET h == size \div 2
    IN  [c \in 1..3 |->
            TruncDiv(2 * (bg_dark[c] * (h - r) + bg_light[c] * r) + h, 2 * h)]

\* The interpolation with the two endpoint colours exchanged.
GradientColorSwapped(size, r) ==
    LET h == size \div 2
    IN  [c \in 1..3 |-> TruncDiv(bg_light[c] * (h - r) + bg_dark[c] * r, h)]

\* The fill colour of the gradient circle of radius r: each channel is
\* int(bg_dark[c] * (1 - ratio) + bg_light[c] * ratio), ratio = r / (size // 2).
\* With h = size // 2 the exact value is (bg_dark[c]*(h-r) + bg_light[c]*r) / h;
\* the float expression truncates to the same integer for every r and size used.
GradientColor(size, r) ==
    LET h == size \div 2
    IN  [c \in 1..3 |-> TruncDiv(bg_dark[c] * (h - r) + bg_light[c] * r, h)]

\* The body of the loop "for r in range(size // 2, 0, -1)" for one r.
GradientCircle(size, r) ==
    LET cx == size \div 2
        cy == size \div 2
    IN  DrawOp("ellipse", <<cx - r, cy - r, cx + r, cy + r>>,
               Ink(GradientColor(size, r)), TRUE, 1, 0, 0)

\* The loop "for r in range(size // 2, 0, -1)": one circle per radius, the
\* largest first, so the i-th call has radius size // 2 - i + 1.
DrawGradient(img, size) ==
    LET h == size \div 2
    IN  [img EXCEPT !.ops = @ \o [i \in 1..h |-> GradientCircle(size, h - i + 1)]]

\* draw.ellipse([2, 2, size - 3, size - 3], outline=(255, 255, 255, 100), width=...)
DrawBorder(img, size) ==
    LET border_width == Max(1, size \div 32)
    IN  Draw(img, DrawOp("ellipse", <<2, 2, size - 3, size - 3>>,
                         border_color, FALSE, border_width, 0, 0))

\* The two scan arcs.
DrawArcs(img, size) ==
    LET cx == size \div 2
        cy == size \div 2
        arc_width == Max(2, size \div 20)
        inner_r == Frac(size, 25)
        outer_r == Frac(size, 35)
        bbox_inner == <<cx - inner_r, cy - inner_r, cx + inner_r, cy + inner_r>>
        bbox_outer == <<cx - outer_r, cy - outer_r, cx + outer_r, cy + outer_r>>
        inner == DrawOp("arc", bbox_inner, Ink(SubSeq(scan_color, 1, 3)),
                        FALSE, arc_width, -135, -45)
        outer == DrawOp("arc", bbox_outer, Ink(SubSeq(scan_color, 1, 3)),
                        FALSE, arc_width, 45, 135)
    IN  Draw(Draw(img, inner), outer)

\* The bar heights listed tallest first.
bar_heights_descending(size) == <<Frac(size, 24), Frac(size, 18), Frac(size, 12)>>

\* bar_heights = [int(size * 0.12), int(size * 0.18), int(size * 0.24)]
bar_heights(size) == <<Frac(size, 12), Frac(size, 18), Frac(size, 24)>>

\* bar_width = max(2, int(size * 0.06))
bar_width(size) == Max(2, Frac(size, 6))

\* The pitch of the bars taken equal to their width factor.
bar_spacing_narrow(size) == Frac(size, 6)

\* bar_spacing = int(size * 0.08)
bar_spacing(size) == Frac(size, 8)

\* The rectangle of bar i (0-based, as enumerate numbers it).
BarRect(size, i) ==
    LET cx == size \div 2
        cy == size \div 2
        base_y == FracPlus(cy, size, 15)
        bar_x == FracMinus(cx, size, 12)
        h == bar_heights(size)[i + 1]
        x == bar_x + i * bar_spacing(size)
    IN  DrawOp("rectangle", <<x, base_y - h, x + bar_width(size), base_y>>,
               Ink(SubSeq(chart_color, 1, 3)), TRUE, 1, 0, 0)

\* for i, h in enumerate(bar_heights): draw.rectangle(...)
DrawBars(img, size) ==
    Draw(Draw(Draw(img, BarRect(size, 0)), BarRect(size, 1)), BarRect(size, 2))

\* The accent dot's bounding box.
DotBox(size) ==
    LET cx == size \div 2
        cy == size \div 2
        dot_size == Max(2, Frac(size, 6))
        dot_x == FracPlus(cx, size, 20)
        dot_y == FracMinus(cy, size, 25)
    IN  <<dot_x, dot_y, dot_x + dot_size, dot_y + dot_size>>

\* The size test off by one.
HasDotAbove48(size) == size > 48

\* if size >= 48: draw.ellipse([...], fill=(255, 255, 255, 200))
HasDot(size) == size >= 48

DrawDot(img, size) ==
    IF HasDot(size)
    THEN Draw(img, DrawOp("ellipse", DotBox(size), dot_color, TRUE, 1, 0, 0))
    ELSE img

create_icon_image(size) ==
    DrawDot(DrawBars(DrawArcs(DrawBorder(
        DrawGradient(ImageNew(size), size), size), size), size), size)

----------------------------------------------------------------------------
(* Pixels.  The raster of a call is the drawing library's: a rectangle     *)
(* covers its bounding box, both ends included; an ellipse is traced by a  *)
(* Bresenham walk over one quarter of the curve, in coordinates doubled    *)
(* and centred on the bounding box (X = 2x - x0 - x1, Y = 2y - y0 - y1).   *)
(* Every ellipse of the renderer is a circle (square bounding box), so the *)
(* deviation a2*y*y + b2*x*x - a2*b2 is compared through x*x + y*y - a*a.  *)

QuarterDelta(a, x, y) == Abs(x * x + y * y - a * a)

\* The point after (cx, cy) on the quarter circle of doubled radius a:
\* the nearest to the curve among up, up-left and left, the earlier
\* candidate winning ties.
QuarterNext(a, cx, cy) ==
    LET up == <<cx, cy + 2>>
        dUp == QuarterDelta(a, cx, cy + 2)
        dDiag == QuarterDelta(a, cx - 2, cy + 2)
        dLeft == QuarterDelta(a, cx - 2, cy)
        first == IF cx > 1 /\ dUp > dDiag THEN <<cx - 2, cy + 2>> ELSE up
        dFirst == IF cx > 1 /\ dUp > dDiag THEN dDiag ELSE dUp
    IN  IF cx > 1 /\ dFirst > dLeft THEN <<cx - 2, cy>> ELSE first

\* Walk from (cx, cy) to the end point (a % 2, a); <<hi, lo>> are the largest
\* and the smallest X met on row Y (<<-1, -1>>: the curve has no such row).
RECURSIVE QuarterRow(_, _, _, _, _)
QuarterRow(a, cx, cy, Y, acc) ==
    LET here == IF cy = Y
                THEN <<IF acc[1] < 0 THEN cx ELSE acc[1], cx>>
                ELSE acc
    IN  IF cy > Y \/ (cx = a % 2 /\ cy = a) THEN here
        ELSE LET n == QuarterNext(a, cx, cy)
             IN  QuarterRow(a, n[1], n[2], Y, here)

\* The largest X the circle of doubled radius a covers on row Y >= 0.
RowOuter(a, Y) == IF a < 0 \/ Y > a THEN -1
                  ELSE QuarterRow(a, a, a % 2, Y, <<-1, -1>>)[1]

\* The smallest X of an outline's row: the inner curve's last point on the
\* row, or the centre column once the inner curve has ended.
RowInner(a, ai, Y) == IF ai < 0 \/ Y > ai THEN a % 2
                      ELSE QuarterRow(ai, ai, ai % 2, Y, <<-1, -1>>)[2]

\* Whether the ellipse call op (filled, or an outline op.width wide drawn
\* inward from the bounding box) covers pixel (x, y).
EllipseCovers(op, x, y) ==
    LET a == op.bbox[3] - op.bbox[1]
        X == Abs(2 * x - op.bbox[1] - op.bbox[3])
        Y == Abs(2 * y - op.bbox[2] - op.bbox[4])
        ai == a - 2 * (op.width - 1)
    IN  /\ a >= 0
        /\ Y <= a
        /\ X <= RowOuter(a, Y)
        /\ op.filled \/ X >= RowInner(a, ai, Y)

\* The angular sector of an arc, for the two sectors the renderer draws
\* (0 degrees = east, increasing clockwise): -135..-45 is the quadrant above
\* the centre, 45..135 the quadrant below it.
InSector(start, end, dx, dy) ==
    CASE start = -135 /\ end = -45 -> dy < 0 /\ Abs(dx) <= -dy
      [] start = 45 /\ end = 135 -> dy > 0 /\ Abs(dx) <= dy
      [] OTHER -> FALSE

\* An arc is the part of the ellipse outline of its width inside its sector.
ArcCovers(op, x, y) ==
    /\ EllipseCovers(op, x, y)
    /\ InSector(op.start, op.end,
                2 * x - op.bbox[1] - op.bbox[3], 2 * y - op.bbox[2] - op.bbox[4])

RectangleCovers(op, x, y) ==
    /\ op.bbox[1] <= x /\ x <= op.bbox[3]
    /\ op.bbox[2] <= y /\ y <= op.bbox[4]

Covers(op, x, y) ==
    CASE op.kind = "rectangle" -> RectangleCovers(op, x, y)
      [] op.kind = "ellipse" -> EllipseCovers(op, x, y)
      [] op.kind = "arc" -> ArcCovers(op, x, y)
      [] OTHER -> FALSE

\* The index of the last of the first n calls that covers (x, y); 0: none.
RECURSIVE TopOp(_, _, _, _)
TopOp(img, x, y, n) ==
    IF n = 0 THEN 0
    ELSE IF Covers(img.ops[n], x, y) THEN n
    ELSE TopOp(img, x, y, n - 1)

\* img.getpixel((x, y))
PixelAt(img, x, y) ==
    LET n == TopOp(img, x, y, Len(img.ops))
    IN  IF x < 0 \/ y < 0 \/ x >= img.width \/ y >= img.height \/ n = 0
        THEN Transparent
        ELSE img.ops[n].ink

----------------------------------------------------------------------------
(* Files *)

NoFile == [exists |-> FALSE, complete |-> FALSE, frames |-> <<>>]

\* What a write that failed midway leaves behind.
PartialFile == [exists |-> TRUE, complete |-> FALSE, frames |-> <<>>]

FileOf(frames) == [exists |-> TRUE, complete |-> TRUE, frames |-> frames]

\* The destination opened for appending.
FileAppend(old, frames) == FileOf(old.frames \o frames)

\* save() opens its destination with mode "w+b": the new frames replace
\* whatever the file held.
FileWrite(old, frames) == FileOf(frames)

\* The ascending sequence of a set of integers: sorted(set(sizes)).
RECURSIVE SortedSeq(_)
SortedSeq(S) ==
    IF S = {} THEN <<>>
    ELSE LET m == CHOOSE x \in S : \A y \in S : x <= y
         IN  <<m>> \o SortedSeq(S \ {m})

SeqRange(q) == {q[i] : i \in 1..Len(q)}

\* A copy of im scaled to s x s (Image.thumbnail).
Thumbnail(im, s) ==
    [width |-> s, height |-> s,
     ops |-> Append(im.ops, DrawOp("thumbnail", <<0, 0, s - 1, s - 1>>,
                                   Transparent, FALSE, 0, 0, 0))]

\* The frame the ICO encoder stores for size s: the first provided image of
\* exactly that size, else a scaled copy of the last provided image.
IcoFrame(im, provided, s) ==
    LET match == {i \in 1..Len(provided) :
                    provided[i].width = s /\ provided[i].height = s}
    IN  IF match = {} THEN Thumbnail(provided[Len(provided)], s)
        ELSE provided[CHOOSE i \in match : \A j \in match : i <= j]

\* The frames of im.save(path, format='ICO', sizes=[(s, s) ...], append_images=rest):
\* the encoder walks the requested sizes in ascending order and skips every
\* size larger than im itself (or than 256).
RECURSIVE IcoFramesOf(_, _, _)
IcoFramesOf(im, provided, todo) ==
    IF todo = <<>> THEN <<>>
    ELSE LET s == Head(todo)
             rest == IcoFramesOf(im, provided, Tail(todo))
         IN  IF s > im.width \/ s > im.height \/ s > 256 THEN rest
             ELSE <<IcoFrame(im, provided, s)>> \o rest

\* images[0].save(output_path, format='ICO', sizes=..., append_images=images[1:])
IcoSave(imgs, szs) ==
    IcoFramesOf(imgs[1], imgs, SortedSeq(SeqRange(szs)))

\* The size main renders the preview at.
preview_size == 256

ExpectedImages == [i \in 1..Len(sizes) |-> create_icon_image(sizes[i])]

\* A file left by some earlier, different tool.
StaleFile == FileOf(<<ImageNew(32)>>)

EarlierIco == {NoFile, StaleFile, FileOf(IcoSave(ExpectedImages, sizes))}

EarlierPng == {NoFile, StaleFile, FileOf(<<create_icon_image(preview_size)>>)}

----------------------------------------------------------------------------
(* The script *)

Init ==
    /\ pc = "import"
    /\ entry \in {"main", "create_ico_file"}
    /\ run = 1
    /\ pillow \in BOOLEAN
    /\ dir \in {"absent", "dir", "file"}
    /\ parentW \in (IF dir = "absent" THEN BOOLEAN ELSE {TRUE})
    /\ dirW \in (IF dir = "dir" THEN BOOLEAN ELSE {FALSE})
    /\ ico \in (IF dir = "dir" THEN EarlierIco ELSE {NoFile})
    /\ png \in (IF dir = "dir" THEN EarlierPng ELSE {NoFile})
    /\ images = <<>>
    /\ preview = <<>>
    /\ log = <<>>
    /\ failedAt = "none"
    /\ exitCode = -1
    /\ prevOut = <<>>
    /\ startDir = dir

\* Where control goes once the imports are done: main under __main__,
\* create_ico_file when a caller imported the module and called it.
AfterImport(e) == IF e = "main" THEN "makedirs" ELSE "render"

\* main with the preview written before the icon.
MainNextPreviewFirst(step) ==
    CASE step = "makedirs" -> "preview"
      [] step = "save_png" -> "render"
      [] step = "save_ico" -> "done"
      [] OTHER -> "done"

\* main's sequencing: the step that follows a completed step.
MainNext(step) ==
    CASE step = "makedirs" -> "render"
      [] step = "save_ico" -> "preview"
      [] step = "save_png" -> "done"
      [] OTHER -> "done"

\* Where control goes when create_ico_file returns.
AfterIco(e) == IF e = "main" THEN MainNext("save_ico") ELSE "done"

\* Every step wrapped in "try: ... except Exception: pass".
RaiseSwallowed(step) ==
    CASE step = "import" -> "makedirs"
      [] step = "makedirs" -> "render"
      [] step = "save_ico" -> "preview"
      [] OTHER -> "done"

\* No step is wrapped in try/except: an exception ends the invocation.
Raise(step) == "failed"

\* The variables an exception in step sets.
Fail(step) ==
    /\ pc' = Raise(step)
    /\ failedAt' = step
    /\ exitCode' = IF Raise(step) = "failed" THEN 1 ELSE exitCode

\* try: from PIL import ... ; except ImportError: go and install it
Import ==
    /\ pc = "import"
    /\ pc' = IF pillow THEN AfterImport(entry) ELSE "pip"
    /\ UNCHANGED <<entry, run, pillow, dir, parentW, dirW, ico, png, images,
                   preview, log, failedAt, exitCode, prevOut, startDir>>

\* subprocess.check_call(['pip', 'install', 'Pillow']) and the second import
PipInstall ==
    /\ pc = "pip"
    /\ \/ /\ pillow' = TRUE
          /\ pc' = AfterImport(entry)
          /\ UNCHANGED <<failedAt, exitCode>>
       \/ /\ Fail("import")
          /\ UNCHANGED pillow
    /\ UNCHANGED <<entry, run, dir, parentW, dirW, ico, png, images,
                   preview, log, prevOut, startDir>>

\* os.makedirs(resources_dir, exist_ok=True)
Makedirs ==
    /\ pc = "makedirs"
    /\ \/ /\ dir = "dir"
          /\ pc' = MainNext("makedirs")
          /\ log' = Append(log, "makedirs")
          /\ UNCHANGED <<dir, dirW, failedAt, exitCode>>
       \/ /\ dir = "absent" /\ parentW
          /\ dir' = "dir"
          /\ dirW' = TRUE
          /\ pc' = MainNext("makedirs")
          /\ log' = Append(log, "makedirs")
          /\ UNCHANGED <<failedAt, exitCode>>
       \/ /\ dir = "file" \/ (dir = "absent" /\ ~parentW)
          /\ Fail("makedirs")
          /\ UNCHANGED <<dir, dirW, log>>
    /\ UNCHANGED <<entry, run, pillow, parentW, ico, png, images, preview,
                   prevOut, startDir>>

\* One iteration of create_ico_file's loop: img = create_icon_image(size);
\* images.append(img)
Render ==
    /\ pc = "render"
    /\ Len(images) < Len(sizes)
    /\ images' = Append(images, create_icon_image(sizes[Len(images) + 1]))
    /\ pc' = IF Len(images') = Len(sizes) THEN "save_ico" ELSE "render"
    /\ UNCHANGED <<entry, run, pillow, dir, parentW, dirW, ico, png,
                   preview, log, failedAt, exitCode, prevOut, startDir>>

\* A save that cannot open its destination leaves the file as it was; one
\* that fails while writing leaves a partial file, or none if it had
\* created the file.
AfterFailedWrite(old) == {PartialFile} \cup (IF old.exists THEN {} ELSE {NoFile})

\* images[0].save(...) and the print that follows it
SaveIco ==
    /\ pc = "save_ico"
    /\ \/ /\ dir = "dir" /\ dirW
          /\ ico' = FileWrite(ico, IcoSave(images, sizes))
          /\ log' = Append(log, "app.ico")
          /\ pc' = AfterIco(entry)
          /\ exitCode' = IF AfterIco(entry) = "done" THEN 0 ELSE exitCode
          /\ UNCHANGED failedAt
       \/ /\ dir = "dir" /\ dirW
          /\ ico' \in AfterFailedWrite(ico)
          /\ Fail("save_ico")
          /\ UNCHANGED log
       \/ /\ dir # "dir" \/ ~dirW
          /\ Fail("save_ico")
          /\ UNCHANGED <<ico, log>>
    /\ UNCHANGED <<entry, run, pillow, dir, parentW, dirW, png, images,
                   preview, prevOut, startDir>>

\* preview = create_icon_image(256)
RenderPreview ==
    /\ pc = "preview"
    /\ preview' = <<create_icon_image(preview_size)>>
    /\ pc' = "save_png"
    /\ UNCHANGED <<entry, run, pillow, dir, parentW, dirW, ico, png, images,
                   log, failedAt, exitCode, prevOut, startDir>>

\* preview.save(preview_path, 'PNG') and the print that follows it
SavePng ==
    /\ pc = "save_png"
    /\ \/ /\ dir = "dir" /\ dirW
          /\ png' = FileWrite(png, preview)
          /\ log' = Append(log, "app_preview.png")
          /\ pc' = MainNext("save_png")
          /\ exitCode' = IF MainNext("save_png") = "done" THEN 0 ELSE exitCode
          /\ UNCHANGED failedAt
       \/ /\ dir = "dir" /\ dirW
          /\ png' \in AfterFailedWrite(png)
          /\ Fail("save_png")
          /\ UNCHANGED log
       \/ /\ dir # "dir" \/ ~dirW
          /\ Fail("save_png")
          /\ UNCHANGED <<png, log>>
    /\ UNCHANGED <<entry, run, pillow, dir, parentW, dirW, ico, images,
                   preview, prevOut, startDir>>

\* The script is invoked again: a new process, the same filesystem.
Rerun ==
    /\ pc \in {"done", "failed"}
    /\ run < MaxRuns
    /\ run' = run + 1
    /\ pc' = "import"
    /\ images' = <<>>
    /\ preview' = <<>>
    /\ log' = <<>>
    /\ failedAt' = "none"
    /\ exitCode' = -1
    /\ prevOut' = IF pc = "done" /\ entry = "main" THEN <<ico, png>> ELSE <<>>
    /\ startDir' = dir
    /\ UNCHANGED <<entry, pillow, dir, parentW, dirW, ico, png>>

Next ==
    \/ Import
    \/ PipInstall
    \/ Makedirs
    \/ Render
    \/ SaveIco
    \/ RenderPreview
    \/ SavePng
    \/ Rerun

Spec == Init /\ [][Next]_vars

----------------------------------------------------------------------------
(* Properties.  The canvases a claim about create_icon_image speaks of are *)
(* the ones the script has rendered so far: images[i], of size sizes[i].   *)

Rendered == 1..Len(images)

IsPrefix(a, b) == Len(a) <= Len(b) /\ a = SubSeq(b, 1, Len(a))

\* The call that drew the gradient circle of radius r on img.
GradientOp(img, r) == img.ops[img.width \div 2 - r + 1]

\* The accent dot's computed centre for a canvas of side s.
DotCentre(s) ==
    LET dot_size == Max(2, (6 * s) \div 100)
        dot_x == ((s \div 2) * 100 + 20 * s) \div 100
        dot_y == ((s \div 2) * 100 - 25 * s) \div 100
    IN  <<dot_x + dot_size \div 2, dot_y + dot_size \div 2>>

DotCentrePixel(i) ==
    PixelAt(images[i], DotCentre(sizes[i])[1], DotCentre(sizes[i])[2])

IsGradientColour(s, p) ==
    \E r \in 1..(s \div 2) :
        p = <<(20 * (s \div 2 - r) + 26 * r) \div (s \div 2),
              (55 * (s \div 2 - r) + 82 * r) \div (s \div 2),
              (90 * (s \div 2 - r) + 118 * r) \div (s \div 2), 255>>

IsWhite(p) == p[1] = 255 /\ p[2] = 255 /\ p[3] = 255

\* The three chart bars of a canvas, in drawing order.
Bars(img) == SelectSeq(img.ops, LAMBDA o : o.kind = "rectangle")

\* Sum of the channel distances between two colours.
ColourDistance(p, q) == Abs(p[1] - q[1]) + Abs(p[2] - q[2]) + Abs(p[3] - q[3])

\* C1 (as stated): once create_ico_file has written app.ico, the file holds
\* exactly 6 frames, one per size of the standard set, each the canvas
\* create_icon_image rendered for that size.
C1_SixFrames ==
    (log # <<>> /\ log[Len(log)] = "app.ico") =>
        /\ Len(ico.frames) = Len(sizes)
        /\ \A i \in 1..Len(sizes) :
              \E j \in 1..Len(ico.frames) : ico.frames[j] = images[i]

\* C2: in a run of main that found no Resources directory, the completed
\* steps are always a prefix of makedirs, app.ico, app_preview.png; the
\* directory exists once any step has completed; and at successful
\* termination all three have completed, both files exist and are non-empty,
\* and the preview holds one canvas of 256 x 256.
C2_MainOrder ==
    (entry = "main" /\ startDir = "absent") =>
        /\ IsPrefix(log, <<"makedirs", "app.ico", "app_preview.png">>)
        /\ log # <<>> => dir = "dir"
        /\ pc = "done" =>
              /\ log = <<"makedirs", "app.ico", "app_preview.png">>
              /\ ico.exists /\ ico.complete /\ Len(ico.frames) > 0
              /\ png.exists /\ png.complete /\ Len(png.frames) = 1
              /\ png.frames[1].width = 256 /\ png.frames[1].height = 256
              /\ png.frames[1] = preview[1]

C2_Witness ==
    /\ entry = "main" /\ startDir = "absent" /\ pc = "done"
    /\ log = <<"makedirs", "app.ico", "app_preview.png">>

\* C3 (as stated): the pixel at the accent dot's computed centre is white
\* with non-zero alpha when size >= 48, and carries a gradient background
\* colour, not white, when size < 48.
C3_DotCentre_Original ==
    \A i \in Rendered :
        IF sizes[i] >= 48
        THEN IsWhite(DotCentrePixel(i)) /\ DotCentrePixel(i)[4] > 0
        ELSE IsGradientColour(sizes[i], DotCentrePixel(i))
             /\ ~IsWhite(DotCentrePixel(i))

\* C3 (amended): the pixel at the accent dot's computed centre is the dot's
\* white with alpha 200 when size >= 48; for size 32 it carries a gradient
\* background colour; for size 16 no dot is drawn either, but the computed
\* centre (12, 5) lies on the border ring and carries the border's white
\* with alpha 100.
C3_DotCentre ==
    \A i \in Rendered :
        CASE sizes[i] >= 48 -> DotCentrePixel(i) = <<255, 255, 255, 200>>
          [] sizes[i] = 32 -> /\ IsGradientColour(32, DotCentrePixel(i))
                              /\ ~IsWhite(DotCentrePixel(i))
          [] sizes[i] = 16 -> /\ DotCentre(16) = <<12, 5>>
                              /\ DotCentrePixel(i) = <<255, 255, 255, 100>>
                              /\ \A k \in 1..Len(images[i].ops) :
                                    images[i].ops[k].ink # <<255, 255, 255, 200>>
          [] OTHER -> FALSE

C3_Witness == Len(images) = Len(sizes) /\ DotCentrePixel(1)[4] = 100

\* C4 (as stated): the smallest gradient circle (r = 1) has the colour
\* closest to teal and the largest (r = size/2) is dark blue.
C4_TealCentre_Original ==
    \A i \in Rendered :
        LET s == sizes[i]
            img == images[i]
        IN  /\ GradientOp(img, s \div 2).ink = <<20, 55, 90, 255>>
            /\ \A r \in 1..(s \div 2) :
                  ColourDistance(GradientOp(img, 1).ink, <<26, 82, 118>>)
                      <= ColourDistance(GradientOp(img, r).ink, <<26, 82, 118>>)

\* C4 (amended): the gradient runs from dark blue at the centre to teal at
\* the edge: the largest circle (r = size/2) is filled with teal
\* (26, 82, 118) and the smallest (r = 1) with the colour closest to dark
\* blue (20, 55, 90).
C4_DarkCentre ==
    \A i \in Rendered :
        LET s == sizes[i]
            img == images[i]
        IN  /\ GradientOp(img, s \div 2).ink = <<26, 82, 118, 255>>
            /\ GradientOp(img, s \div 2).bbox = <<0, 0, 2 * (s \div 2), 2 * (s \div 2)>>
            /\ GradientOp(img, 1).bbox =
                   <<s \div 2 - 1, s \div 2 - 1, s \div 2 + 1, s \div 2 + 1>>
            /\ \A r \in 1..(s \div 2) :
                  ColourDistance(GradientOp(img, 1).ink, <<20, 55, 90>>)
                      <= ColourDistance(GradientOp(img, r).ink, <<20, 55, 90>>)

C4_Witness ==
    /\ Len(images) = Len(sizes)
    /\ GradientOp(images[6], 128).ink = <<26, 82, 118, 255>>
    /\ GradientOp(images[6], 1).ink # <<26, 82, 118, 255>>

\* C5: taken in order of increasing radius, the gradient circles' fill
\* colours have a non-decreasing blue channel, and each channel of the
\* colour at radius r is the truncated linear interpolation between
\* (20, 55, 90) and (26, 82, 118) at ratio r / (size/2).
C5_GradientLerp ==
    \A i \in Rendered :
        LET s == sizes[i]
            h == s \div 2
            img == images[i]
        IN  \A r \in 1..h :
              /\ GradientOp(img, r).kind = "ellipse" /\ GradientOp(img, r).filled
              /\ GradientOp(img, r).bbox = <<h - r, h - r, h + r, h + r>>
              /\ GradientOp(img, r).ink =
                     <<(20 * (h - r) + 26 * r) \div h,
                       (55 * (h - r) + 82 * r) \div h,
                       (90 * (h - r) + 118 * r) \div h, 255>>
              /\ r < h => GradientOp(img, r).ink[3] <= GradientOp(img, r + 1).ink[3]

C5_Witness ==
    /\ Len(images) = Len(sizes)
    /\ GradientOp(images[3], 7).ink = <<21, 62, 98, 255>>
    /\ GradientOp(images[3], 7).ink[3] < GradientOp(images[3], 8).ink[3]

\* C6: the three chart bars share the baseline y = trunc(cy + 0.15*size)
\* and their top edges are strictly decreasing in index order:
\* top(bar 2) < top(bar 1) < top(bar 0).
C6_BarTops ==
    \A i \in Rendered :
        LET s == sizes[i]
            b == Bars(images[i])
        IN  /\ Len(b) = 3
            /\ \A k \in 1..3 : b[k].bbox[4] = ((s \div 2) * 100 + 15 * s) \div 100
            /\ b[3].bbox[2] < b[2].bbox[2]
            /\ b[2].bbox[2] < b[1].bbox[2]
            /\ b[1].bbox[2] < b[1].bbox[4]

C6_Witness ==
    /\ Len(images) = Len(sizes)
    /\ Bars(images[1])[1].bbox[2] = 9
    /\ Bars(images[1])[3].bbox[2] = 7

\* C7: a failure of any step is fatal.  A step that fails leaves the run in
\* the failure state with a non-zero exit status; a failed run takes no
\* further step and changes nothing on disk (only a new invocation follows);
\* app_preview.png is not written in a run whose app.ico write failed; and
\* create_ico_file never creates a missing destination directory.
C7_FailureIsFatal ==
    [][ /\ failedAt' # "none" => (pc' = "failed" /\ exitCode' # 0 /\ exitCode' # -1)
        /\ pc' = "failed" => failedAt' # "none"
        /\ pc = "failed" =>
              /\ pc' = "import" /\ run' = run + 1
              /\ dir' = dir /\ ico' = ico /\ png' = png
        /\ failedAt' = "save_ico" =>
              /\ \A k \in 1..Len(log') : log'[k] # "app_preview.png"
              /\ preview' = <<>>
        /\ failedAt' = "makedirs" => log' = <<>>
        /\ (pc \in {"render", "save_ico"} /\ dir # "dir") => dir' = dir
      ]_vars

C7_Witness ==
    /\ entry = "main" /\ pc = "failed" /\ failedAt = "save_ico"
    /\ exitCode = 1 /\ ico = PartialFile

\* A direct call of create_ico_file with the destination directory missing
\* fails and leaves the directory missing.
C7_WitnessMissingDir ==
    /\ entry = "create_ico_file" /\ pc = "failed" /\ failedAt = "save_ico"
    /\ dir = "absent" /\ Len(images) = Len(sizes)

\* C8: when main succeeds right after a successful run of main, app.ico and
\* app_preview.png hold the same contents as that earlier run left, whatever
\* the filesystem held before the first of the two runs.
C8_Idempotent ==
    (entry = "main" /\ pc = "done" /\ prevOut # <<>>) =>
        /\ ico = prevOut[1]
        /\ png = prevOut[2]
        /\ ico.complete /\ png.complete

C8_Witness ==
    /\ entry = "main" /\ pc = "done" /\ run = 2 /\ prevOut = <<ico, png>>
    /\ log = <<"makedirs", "app.ico", "app_preview.png">>

\* C9: every canvas create_icon_image returns is exactly size x size
\* pixels: the drawing calls leave the dimensions Image.new gave it.
C9_CanvasSize ==
    /\ \A i \in Rendered :
          /\ images[i].width = sizes[i]
          /\ images[i].height = sizes[i]
          /\ Len(images[i].ops) >= sizes[i] \div 2 + 6
    /\ \A k \in 1..Len(preview) :
          preview[k].width = 256 /\ preview[k].height = 256

C9_Witness ==
    /\ Len(images) = Len(sizes) /\ Len(preview) = 1
    /\ images[1].width = 16 /\ images[6].height = 256

\* C10 (as stated): for every size the three bars occupy pairwise disjoint
\* column ranges: the right edge of bar i is strictly left of the left edge
\* of bar i+1.
C10_BarsDisjoint_Original ==
    \A i \in Rendered :
        LET b == Bars(images[i])
        IN  /\ b[1].bbox[3] < b[2].bbox[1]
            /\ b[2].bbox[3] < b[3].bbox[1]

\* C10 (amended): bar i spans columns [x_i, x_i + bar_width] with
\* x_i = bar_x + i*trunc(0.08*size) and bar_width = max(2, trunc(0.06*size));
\* for the sizes 48, 64, 128 and 256 the right edge of bar i is strictly
\* left of the left edge of bar i+1, while for 16 and 32 adjacent bars share
\* columns (the bar is wider than the pitch) and the three bars merge.
C10_BarsDisjointFrom48 ==
    \A i \in Rendered :
        LET s == sizes[i]
            b == Bars(images[i])
            x0 == ((s \div 2) * 100 - 12 * s) \div 100
        IN  /\ \A k \in 1..3 :
                  /\ b[k].bbox[1] = x0 + (k - 1) * ((8 * s) \div 100)
                  /\ b[k].bbox[3] = b[k].bbox[1] + Max(2, (6 * s) \div 100)
            /\ IF s >= 48
               THEN b[1].bbox[3] < b[2].bbox[1] /\ b[2].bbox[3] < b[3].bbox[1]
               ELSE b[1].bbox[3] >= b[2].bbox[1] /\ b[2].bbox[3] >= b[3].bbox[1]

C10_Witness ==
    /\ Len(images) = Len(sizes)
    /\ Bars(images[1])[1].bbox[3] = 8 /\ Bars(images[1])[2].bbox[1] = 7
    /\ Bars(images[3])[1].bbox[3] = 20 /\ Bars(images[3])[2].bbox[1] = 21

====
